---- MODULE Spec2Model ----
(***************************************************************************)
(* Command transaction engine, sequencing guard and connect-time handshake *)
(* of the two INDI drivers OnStep_Aux (drivers/auxiliary/onstep_aux.cpp)   *)
(* and OCS (drivers/dome/ocs.h).                                           *)
(*                                                                         *)
(* Characters are one-character strings, C strings are sequences of        *)
(* characters, the receive buffers are sequences of RB_MAX_LEN characters  *)
(* (C index i is TLA+ index i + 1) and NUL is the terminating zero byte.   *)
(***************************************************************************)
EXTENDS Integers, Sequences, FiniteSets, TLC

\* ------------------------------------------------------------------------
\* Program constants
\* ------------------------------------------------------------------------
RB_MAX_LEN == 64

RES_ERR_FORMAT == -1001

conversion_error == -10000

\* indicom.h, enum TTY_ERROR: success is zero, every failure is negative.
TTY_OK == 0

TTY_READ_ERROR == -1

TTY_WRITE_ERROR == -2

TTY_TIME_OUT == -4

NUL == "NUL"

\* ------------------------------------------------------------------------
\* C library helpers, as the drivers use them
\* ------------------------------------------------------------------------
\* A buffer as `char response[RB_MAX_LEN] = {0}` leaves it.
ZeroBuf == [i \in 1..RB_MAX_LEN |-> NUL]

\* The first TLA+ index from i on at which s holds ch, Len(s) + 1 if none.
RECURSIVE Scan(_, _, _)
Scan(s, i, ch) ==
    IF i > Len(s) \/ s[i] = ch THEN i ELSE Scan(s, i + 1, ch)

\* strlen: the number of bytes before the first NUL (the whole buffer when
\* it holds none: the drivers always store one before reading the string).
strlen(buf) == Scan(buf, 1, NUL) - 1

\* The C string a buffer holds.
CStr(buf) == SubSeq(buf, 1, strlen(buf))

\* strchr(data, ch): the C index of the first ch of the string, or -1 for a
\* null pointer.
strchr(buf, ch) ==
    IF Scan(CStr(buf), 1, ch) > strlen(buf) THEN -1 ELSE Scan(CStr(buf), 1, ch) - 1

\* buf[i] = ch, for a C index i inside the buffer.
Store(buf, i, ch) == [buf EXCEPT ![i + 1] = ch]

\* The bytes a read stores from buf[0] on; bytes beyond the buffer are not kept.
ReadInto(buf, bytes) ==
    [i \in 1..Len(buf) |-> IF i <= Len(bytes) THEN bytes[i] ELSE buf[i]]

\* The digits of the bases the conversions know; a letter digit counts in
\* either case.
Digits == <<"0", "1", "2", "3", "4", "5", "6", "7", "8", "9",
            "a", "b", "c", "d", "e", "f">>

UpperDigits == <<"A", "B", "C", "D", "E", "F">>

IsDigit(ch) ==
    (\E d \in 1..16 : Digits[d] = ch) \/ (\E d \in 1..6 : UpperDigits[d] = ch)

DigitVal(ch) ==
    IF \E d \in 1..16 : Digits[d] = ch
    THEN (CHOOSE d \in 1..16 : Digits[d] = ch) - 1
    ELSE (CHOOSE d \in 1..6 : UpperDigits[d] = ch) + 9

IsSpace(ch) == ch = " "

\* Number of leading bytes of s, from TLA+ index i on, that satisfy the class.
RECURSIVE SpaceRun(_, _)
SpaceRun(s, i) ==
    IF i <= Len(s) /\ IsSpace(s[i]) THEN 1 + SpaceRun(s, i + 1) ELSE 0

RECURSIVE DigitRun(_, _, _)
DigitRun(s, i, base) ==
    IF i <= Len(s) /\ IsDigit(s[i]) /\ DigitVal(s[i]) < base
    THEN 1 + DigitRun(s, i + 1, base)
    ELSE 0

\* Value of the n digits of s that start at index i.
RECURSIVE DigitsValue(_, _, _, _)
DigitsValue(s, i, n, base) ==
    IF n = 0 THEN 0
    ELSE DigitsValue(s, i, n - 1, base) * base + DigitVal(s[i + n - 1])

SignLen(s, i) == IF i <= Len(s) /\ s[i] \in {"+", "-"} THEN 1 ELSE 0

SignOf(s, i) == IF i <= Len(s) /\ s[i] = "-" THEN -1 ELSE 1

At(s, i) == IF i >= 1 /\ i <= Len(s) THEN s[i] ELSE NUL

\* sscanf(data, "%i", value) == 1: white space, an optional sign, then a
\* number in base 16 after 0x, in base 8 after 0, in base 10 otherwise; the
\* conversion stops at the first byte that is no digit of the base and
\* succeeds when it has read at least one digit. value keeps v0 otherwise.
SscanfInt(s, v0) ==
    LET i == 1 + SpaceRun(s, 1)
        j == i + SignLen(s, i)
        isHex == At(s, j) = "0" /\ At(s, j + 1) \in {"x", "X"}
                 /\ DigitRun(s, j + 2, 16) > 0
        base == IF isHex THEN 16 ELSE IF At(s, j) = "0" THEN 8 ELSE 10
        start == IF isHex THEN j + 2 ELSE j
        n == DigitRun(s, start, base)
    IN  IF n > 0
        THEN [converted |-> TRUE,
              value |-> SignOf(s, i) * DigitsValue(s, start, n, base)]
        ELSE [converted |-> FALSE, value |-> v0]

\* Length of the floating-point text at index j of s (strtod's subject
\* sequence without its sign): nan, inf, infinity, or digits with an
\* optional point and an optional exponent; 0 when there is none.
FloatLen(s, j) ==
    LET low(k) == IF At(s, k) \in {"N", "n"} THEN "n"
                  ELSE IF At(s, k) \in {"A", "a"} THEN "a"
                  ELSE IF At(s, k) \in {"I", "i"} THEN "i"
                  ELSE IF At(s, k) \in {"F", "f"} THEN "f"
                  ELSE At(s, k)
        n1 == DigitRun(s, j, 10)
        hasDot == At(s, j + n1) = "."
        n2 == IF hasDot THEN DigitRun(s, j + n1 + 1, 10) ELSE 0
        mlen == n1 + (IF hasDot THEN 1 + n2 ELSE 0)
        k == j + mlen
        esign == SignLen(s, k + 1)
        edig == IF At(s, k) \in {"e", "E"}
                THEN DigitRun(s, k + 1 + esign, 10) ELSE 0
        elen == IF edig > 0 THEN 1 + esign + edig ELSE 0
    IN  IF <<low(j), low(j + 1), low(j + 2)>> \in {<<"n", "a", "n">>, <<"i", "n", "f">>}
        THEN 3
        ELSE IF n1 + n2 >= 1 THEN mlen + elen ELSE 0

\* sscanf(data, "%lf", value) == 1. The double is kept as the text that was
\* converted; value keeps v0 when nothing was.
SscanfDouble(s, v0) ==
    LET i == 1 + SpaceRun(s, 1)
        j == i + SignLen(s, i)
        n == FloatLen(s, j)
    IN  IF n > 0
        THEN [converted |-> TRUE, value |-> SubSeq(s, i, j + n - 1)]
        ELSE [converted |-> FALSE, value |-> v0]

INT_MAX == 2147483647

\* std::stoi(data): strtol in base 10; throws std::invalid_argument when no
\* digit was read and std::out_of_range when the value does not fit an int.
stoi(s) ==
    LET i == 1 + SpaceRun(s, 1)
        j == i + SignLen(s, i)
        n == DigitRun(s, j, 10)
        v == SignOf(s, i) * DigitsValue(s, j, n, 10)
    IN  IF n = 0 THEN [thrown |-> "invalid_argument", value |-> 0]
        ELSE IF v > INT_MAX \/ v < -INT_MAX - 1
        THEN [thrown |-> "out_of_range", value |-> 0]
        ELSE [thrown |-> "none", value |-> v]

\* std::stof(response): strtof; throws std::invalid_argument when nothing
\* was converted.
stof(s) ==
    LET r == SscanfDouble(s, <<>>)
    IN  IF r.converted THEN [thrown |-> "none", value |-> r.value]
        ELSE [thrown |-> "invalid_argument", value |-> <<>>]

\* ------------------------------------------------------------------------
\* The transport (indicom's tty_* calls and tcflush on the port)
\* ------------------------------------------------------------------------
\* tty_read_section_expanded(fd, buf, '#', ...) on the input queue q: the
\* bytes up to and including the first stop byte, or everything that is
\* there followed by a timeout. nbytes_read is the number of bytes.
tty_read_section_expanded(q, stop) ==
    IF Scan(q, 1, stop) <= Len(q)
    THEN [res |-> TTY_OK, bytes |-> SubSeq(q, 1, Scan(q, 1, stop)),
          rest |-> SubSeq(q, Scan(q, 1, stop) + 1, Len(q))]
    ELSE [res |-> TTY_TIME_OUT, bytes |-> q, rest |-> <<>>]

\* tty_read_expanded(fd, buf, nbytes, ...): exactly nbytes bytes, or what is
\* there followed by a timeout.
tty_read_expanded(q, nbytes) ==
    IF Len(q) >= nbytes
    THEN [res |-> TTY_OK, bytes |-> SubSeq(q, 1, nbytes),
          rest |-> SubSeq(q, nbytes + 1, Len(q))]
    ELSE [res |-> TTY_TIME_OUT, bytes |-> q, rest |-> <<>>]

\* The tty_read_* calls are given the buffer and no size: a read of more
\* than RB_MAX_LEN bytes stores behind the end of the buffer.
ReadOverflows(o) == Len(o.bytes) > RB_MAX_LEN

\* A read that fails at the transport layer reads nothing.
tty_read_failure(q) == [res |-> TTY_READ_ERROR, bytes |-> <<>>, rest |-> q]

\* An unterminated run of n bytes.
LongReply(n) == [i \in 1..n |-> "x"]

\* What the device may send back after a command: nothing, the bare digit of
\* the OnStep success/fail convention, a terminated payload, or a run of
\* bytes without terminator that fills the receive buffer or exceeds it.
AllReplies ==
    { <<>>, <<"0">>, <<"1">>, <<"1", "2", "#">>, <<"E", "R", "R", "#">>,
      <<"O", "n", "-", "S", "t", "e", "p", "#">>, <<"O", "C", "S", "#">>,
      <<"2", ",", "3", "#">>, LongReply(RB_MAX_LEN), LongReply(RB_MAX_LEN + 1) }

\* ------------------------------------------------------------------------
\* The command functions
\* ------------------------------------------------------------------------
Drivers == {"OnStep_Aux", "OCS"}

\* sendCommand is sendOSCommand / sendOCSCommand, sendCommandBlind is
\* sendOSCommandBlind / sendOCSCommandBlind.
CommandFunctions ==
    {"sendCommandBlind", "sendCommand", "getCommandSingleCharResponse",
     "getCommandDoubleResponse", "getCommandIntResponse",
     "getCommandSingleCharErrorOrLongResponse", "getCommandIntFromCharResponse"}

\* The functions a driver has: getCommandIntFromCharResponse is OnStep_Aux's.
FunctionsOf(drv) ==
    IF drv = "OCS" THEN CommandFunctions \ {"getCommandIntFromCharResponse"}
    ELSE CommandFunctions

\* The transaction a function runs: getCommandIntFromCharResponse calls
\* getCommandSingleCharErrorOrLongResponse.
Transaction(f) ==
    IF f = "getCommandIntFromCharResponse"
    THEN "getCommandSingleCharErrorOrLongResponse" ELSE f

\* The functions that start with blockUntilClear().
CallsBlockUntilClear(drv, f) ==
    drv = "OnStep_Aux" /\ Transaction(f) # "sendCommandBlind"

\* The functions that call tcflush(fd, TCIFLUSH) between taking the lock and
\* writing: all but getCommandSingleCharResponse.
FlushesBeforeWrite(f) == Transaction(f) # "getCommandSingleCharResponse"

\* The read of a function: one byte, or a section up to '#'.
ReadsOneByte(drv, f) ==
    \/ Transaction(f) \in {"sendCommand", "getCommandSingleCharResponse"}
    \/ Transaction(f) = "getCommandIntResponse" /\ drv = "OnStep_Aux"

\* A function that does not look at what tty_write_string returned.
WriteResultIgnored(error) == FALSE

\* if ((error_type = tty_write_string(...)) != TTY_OK) return ...;
WriteFailed(error) == error # TTY_OK

\* A framing that leaves the terminator where it is.
FrameKeepsTerminator(buf, n) ==
    IF n < RB_MAX_LEN THEN Store(buf, n, NUL) ELSE Store(buf, RB_MAX_LEN - 1, NUL)

\* The framing every function but sendCommand applies to its buffer after
\* the read: cut at the first '#', then store the terminating zero.
Frame(buf, n) ==
    LET term == strchr(buf, "#")
        cut == IF term >= 0 THEN Store(buf, term, NUL) ELSE buf
    IN  IF n < RB_MAX_LEN THEN Store(cut, n, NUL)
        ELSE Store(cut, RB_MAX_LEN - 1, NUL)

\* A C++ int returned from a function declared bool.
AsBool(i) == IF i # 0 THEN 1 ELSE 0

\* The opposite convention: '1' for success.
DigitResultOneIsSuccess(n, ch) == IF n < 1 THEN 0 ELSE IF ch = "1" THEN 1 ELSE 0

\* sendOSCommand / sendOCSCommand after the read: false when nothing was
\* read, else whether the byte is '0'.
DigitResult(n, ch) == IF n < 1 THEN 0 ELSE IF ch = "0" THEN 1 ELSE 0

\* A numeric function that does not look at what sscanf returned.
NumericResultUnparsed(res, converted, n) == IF res # TTY_OK THEN res ELSE n

\* A numeric function that parses before it looks at the read's result.
NumericResultParseFirst(res, converted, n) ==
    IF ~converted THEN RES_ERR_FORMAT
    ELSE IF res # TTY_OK THEN res
    ELSE n

\* getCommandIntResponse / getCommandDoubleResponse after the framing: the
\* transport's code when the read failed, RES_ERR_FORMAT when sscanf did
\* not convert, else the number of bytes read.
NumericResult(res, converted, n) ==
    IF res # TTY_OK THEN res
    ELSE IF ~converted THEN RES_ERR_FORMAT
    ELSE n

\* Numeric functions that flush the input queue only.
NumericFlushesInputOnly(res, converted) == <<"TCIFLUSH">>

\* The tcflush calls of the numeric functions after the read: TCIFLUSH
\* always, TCIOFLUSH on their two failure paths.
NumericFlushes(res, converted) ==
    IF res # TTY_OK \/ ~converted THEN <<"TCIFLUSH", "TCIOFLUSH">>
    ELSE <<"TCIFLUSH">>

\* What each function does with the outcome o of its read (o.res the
\* transport's code, o.bytes the bytes stored): the buffer and the value it
\* leaves, whether it reaches clearBlock() (OnStep_Aux), the tcflush calls
\* it makes and what it returns. buf, v0 and dv0 are the caller's buffer
\* and values before the call.
AfterRead(f, buf, v0, dv0, o) ==
    LET n == Len(o.bytes)
        got == ReadInto(buf, o.bytes)
        framed == Frame(got, n)
        asInt == SscanfInt(CStr(framed), v0)
        asDouble == SscanfDouble(CStr(framed), dv0)
        same == [data |-> framed, value |-> v0, dvalue |-> dv0, clears |-> TRUE,
                 flushes |-> <<"TCIFLUSH">>, ret |-> n]
    IN  CASE f = "sendCommand" ->
                [same EXCEPT !.data = got, !.ret = DigitResult(n, got[1])]
          [] f = "getCommandSingleCharResponse" ->
                IF o.res # TTY_OK
                THEN [same EXCEPT !.data = got, !.clears = FALSE, !.ret = o.res]
                ELSE same
          [] f = "getCommandDoubleResponse" ->
                [same EXCEPT !.dvalue = IF o.res = TTY_OK THEN asDouble.value ELSE dv0,
                             !.flushes = NumericFlushes(o.res, asDouble.converted),
                             !.ret = NumericResult(o.res, asDouble.converted, n)]
          [] f = "getCommandIntResponse" ->
                [same EXCEPT !.value = IF o.res = TTY_OK THEN asInt.value ELSE v0,
                             !.flushes = NumericFlushes(o.res, asInt.converted),
                             !.ret = NumericResult(o.res, asInt.converted, n)]
          [] f = "getCommandSingleCharErrorOrLongResponse" ->
                [same EXCEPT !.ret = IF o.res # TTY_OK THEN o.res ELSE n]

\* ------------------------------------------------------------------------
\* State
\* ------------------------------------------------------------------------
NumCallers == 2

NoCaller == 0

WEATHER_MEASUREMENTS_COUNT == 4

Connections == {"CONNECTION_TCP", "CONNECTION_SERIAL"}

VARIABLES
    driver,              \* which driver this instance is
    connection,          \* the active connection: CONNECTION_TCP or serial
    callers,             \* the framework callbacks that may call into it
    deviceReplies,       \* what the attached device may answer
    recording,           \* whether the history variables io and last are kept
    callerBuffers,       \* what a receive buffer may hold when it is passed in
    waitingForResponse,  \* OnStep_Aux: the command sequence block
    commsLock,           \* owner of osaCommsLock / ocsCommsLock, or NoCaller
    rx,                  \* bytes in the port's input queue
    dev,                 \* reply the device has sent that has not arrived yet
    lastOp,              \* the last write or read any caller made on the port
    pc,                  \* where each caller is
    op,                  \* what it runs: one command function, or Handshake
    fn,                  \* the command function it is in
    cmd,                 \* the command it sends
    data,                \* its receive buffer
    value,               \* its int out-parameter
    dvalue,              \* its double out-parameter (as converted text)
    ret,                 \* what its transaction returned
    io,                  \* history: the port operations of its current call
    last,                \* history: the call that returned last
    hsPc,                \* where Handshake is
    connects,            \* how often Handshake was called
    connected,           \* isConnected()
    measurement,         \* GetCapabilites' weather loop counter
    handshake_status,    \* Handshake's local (a bool as 0 or 1)
    probes,              \* the commands written since Handshake was entered
    hasFocuser, hasRotator, hasWeather, hasFeatures,
    weather_enabled, weather_tab_enabled,
    domeCapability,      \* OCS: SetDomeCapability was called
    ROOF_TIME_PRE_MOTION, ROOF_TIME_POST_MOTION,
    OSTimeoutSeconds, OSTimeoutMicroSeconds

cfgVars == <<driver, connection, callers, deviceReplies, recording, callerBuffers>>

linkVars == <<rx, dev, lastOp>>

callVars == <<pc, op, fn, cmd, data, value, dvalue, ret, io, last>>

capVars == <<hasFocuser, hasRotator, hasWeather, hasFeatures, weather_enabled,
             weather_tab_enabled, domeCapability, ROOF_TIME_PRE_MOTION,
             ROOF_TIME_POST_MOTION>>

timeoutVars == <<OSTimeoutSeconds, OSTimeoutMicroSeconds>>

hsVars == <<hsPc, measurement, handshake_status, connects, connected>>

vars == <<cfgVars, waitingForResponse, commsLock, linkVars, callVars, probes,
          hsVars, capVars, timeoutVars>>

Ev(kind, arg, res, bytes) == [op |-> kind, arg |-> arg, res |-> res, bytes |-> bytes]

Tcflush(arg) == Ev("tcflush", arg, 0, <<>>)

RECURSIVE TcflushAll(_)
TcflushAll(args) ==
    IF args = <<>> THEN <<>> ELSE <<Tcflush(Head(args))>> \o TcflushAll(Tail(args))

\* The record of a call that returned: who called what, what it returned
\* (a bool as 0 or 1), what it left in the caller's buffer and values, its
\* locals error_type and nbytes_read and its port operations.
CallRecord(c, f, k, r, buf, v, dv, error, n, log) ==
    [caller |-> c, fn |-> f, cmd |-> k, ret |-> r, data |-> buf, value |-> v,
     dvalue |-> dv, error_type |-> error, nbytes_read |-> n, io |-> log]

NoCall == CallRecord(NoCaller, "none", "none", 0, ZeroBuf, 0, <<>>, 0, 0, <<>>)

\* The state after construction. weather_enabled has no initialiser: its
\* entries are indeterminate until GetCapabilites stores them.
InitDriver ==
    /\ driver \in Drivers
    /\ waitingForResponse = FALSE
    /\ commsLock = NoCaller
    /\ rx = <<>>
    /\ dev = <<>>
    /\ lastOp = [caller |-> NoCaller, op |-> "none"]
    /\ pc = [c \in 1..NumCallers |-> "idle"]
    /\ op = [c \in 1..NumCallers |-> "call"]
    /\ fn = [c \in 1..NumCallers |-> "none"]
    /\ cmd = [c \in 1..NumCallers |-> "none"]
    /\ data = [c \in 1..NumCallers |-> ZeroBuf]
    /\ value = [c \in 1..NumCallers |-> 0]
    /\ dvalue = [c \in 1..NumCallers |-> <<>>]
    /\ ret = [c \in 1..NumCallers |-> 0]
    /\ io = [c \in 1..NumCallers |-> <<>>]
    /\ last = NoCall
    /\ hsPc = "none"
    /\ connects = 0
    /\ connected = FALSE
    /\ measurement = 0
    /\ handshake_status = 0
    /\ probes = <<>>
    /\ hasFocuser = FALSE
    /\ hasRotator = FALSE
    /\ hasWeather = FALSE
    /\ hasFeatures = FALSE
    /\ \E v \in {0, 1} :
          weather_enabled = [m \in 0..(WEATHER_MEASUREMENTS_COUNT - 1) |-> v]
    /\ weather_tab_enabled = FALSE
    /\ domeCapability = FALSE
    /\ ROOF_TIME_PRE_MOTION = 0
    /\ ROOF_TIME_POST_MOTION = 0
    /\ OSTimeoutSeconds = 0
    /\ OSTimeoutMicroSeconds = 100000

\* ------------------------------------------------------------------------
\* One call of a command function, statement by statement
\* ------------------------------------------------------------------------
\* The frame of caller c: where it is, in which function, with what command,
\* buffer, values and transaction result.
Frame_(c, p, f, k, buf, v, dv, r) ==
    /\ pc' = [pc EXCEPT ![c] = p]
    /\ fn' = [fn EXCEPT ![c] = f]
    /\ cmd' = [cmd EXCEPT ![c] = k]
    /\ data' = [data EXCEPT ![c] = buf]
    /\ value' = [value EXCEPT ![c] = v]
    /\ dvalue' = [dvalue EXCEPT ![c] = dv]
    /\ ret' = [ret EXCEPT ![c] = r]

\* The history of port operations of caller c, extended by evs.
Log(c, evs) == io' = [io EXCEPT ![c] = IF recording THEN @ \o evs ELSE @]

\* Entering function f with command k and the caller's buffer and values;
\* the history starts afresh.
Enter(c, f, k, buf, v0, dv0) ==
    /\ Frame_(c, IF CallsBlockUntilClear(driver, f) THEN "blockUntilClear"
                 ELSE "flushIO", f, k, buf, v0, dv0, 0)
    /\ io' = [io EXCEPT ![c] = <<>>]
    /\ last' = NoCall

\* A transaction that starts over instead of returning.
RetriesInsteadOfReturning(c) == "lock"

\* Where control goes when the transaction of caller c returns.
AfterReturn(c) ==
    IF fn[c] = "getCommandIntFromCharResponse" THEN "intFromChar"
    ELSE IF op[c] = "Handshake" THEN "Handshake"
    ELSE IF op[c] = "update" THEN "apply"
    ELSE "idle"

\* The function fn[c] (the transaction itself when f says so) returns r to
\* where control goes next, p: its locals are gone, and when that ends the
\* callback the caller's buffer and values are gone with it.
Return(c, p, f, r, buf, v, dv, error, n, evs) ==
    /\ IF p = "idle"
       THEN Frame_(c, "idle", "none", "none", ZeroBuf, 0, <<>>, 0)
       ELSE Frame_(c, p, fn[c], cmd[c], buf, v, dv, r)
    /\ Log(c, evs)
    /\ last' = IF recording
               THEN CallRecord(c, f, cmd[c], r, buf, v, dv, error, n, io[c] \o evs)
               ELSE last

\* A buffer declared without initialiser (char response[RB_MAX_LEN];) that
\* holds what an earlier response left on the stack.
StaleBuf == ReadInto(ZeroBuf, <<"7", "8", "#", "9", "#", "6">>)

\* A framework callback calls one command function, with a buffer that is
\* zeroed or not.
Call(c) ==
    /\ pc[c] = "idle"
    /\ \E f \in FunctionsOf(driver), buf \in callerBuffers :
          Enter(c, f, "cmd", buf, 0, <<>>)
    /\ op' = [op EXCEPT ![c] = "call"]
    /\ UNCHANGED <<cfgVars, waitingForResponse, commsLock, linkVars, probes,
                   hsVars, capVars, timeoutVars>>

\* A periodic update function (OSUpdateFocuser, TimerHit) calls a command
\* function and then updates a framework property with what it returned.
Update(c) ==
    /\ pc[c] = "idle"
    /\ \E f \in FunctionsOf(driver), buf \in callerBuffers :
          Enter(c, f, "cmd", buf, 0, <<>>)
    /\ op' = [op EXCEPT ![c] = "update"]
    /\ UNCHANGED <<cfgVars, waitingForResponse, commsLock, linkVars, probes,
                   hsVars, capVars, timeoutVars>>

\* The property update of the update function (setState, apply, IDSet*,
\* in both branches of the test of the result), after which it returns.
Apply(c) ==
    /\ pc[c] = "apply"
    /\ Frame_(c, "idle", "none", "none", ZeroBuf, 0, <<>>, 0)
    /\ UNCHANGED <<cfgVars, waitingForResponse, commsLock, linkVars, op, io,
                   last, probes, hsVars, capVars, timeoutVars>>

\* blockUntilClear: while (waitingForResponse) usleep(...);
BlockUntilClear_Wait(c) ==
    /\ pc[c] = "blockUntilClear"
    /\ pc' = [pc EXCEPT ![c] = IF waitingForResponse THEN "blockUntilClear"
                                 ELSE "grab"]
    /\ UNCHANGED <<cfgVars, waitingForResponse, commsLock, linkVars, op, fn, cmd,
                   data, value, dvalue, ret, io, last, probes, hsVars, capVars,
                   timeoutVars>>

\* blockUntilClear: waitingForResponse = true;
BlockUntilClear_Grab(c) ==
    /\ pc[c] = "grab"
    /\ waitingForResponse' = TRUE
    /\ pc' = [pc EXCEPT ![c] = "flushIO"]
    /\ UNCHANGED <<cfgVars, commsLock, linkVars, op, fn, cmd, data, value, dvalue,
                   ret, io, last, probes, hsVars, capVars, timeoutVars>>

\* flushIO: tcflush(fd, TCIOFLUSH), before the lock is taken.
FlushIO_Tcflush(c) ==
    /\ pc[c] = "flushIO"
    /\ rx' = <<>>
    /\ Log(c, <<Tcflush("TCIOFLUSH")>>)
    /\ pc' = [pc EXCEPT ![c] = "flushIO_lock"]
    /\ UNCHANGED <<cfgVars, waitingForResponse, commsLock, dev, lastOp, op, fn,
                   cmd, data, value, dvalue, ret, last, probes, hsVars, capVars,
                   timeoutVars>>

\* Storing behind the end of a buffer on the stack is undefined: the call
\* goes on as if nothing happened, or the process dies in the read (kind
\* tells the read of a response from the read of flushIO).
Overrun(c, o, kind) ==
    /\ rx' = o.rest
    /\ lastOp' = [caller |-> c, op |-> kind]
    /\ Frame_(c, "terminated", "none", "none", ZeroBuf, 0, <<>>, 0)
    /\ Log(c, <<Ev(kind, "", o.res, o.bytes)>>)
    /\ UNCHANGED <<waitingForResponse, commsLock, last>>

\* A guard that does not wait for the mutex.
LockIgnored(c) == TRUE

\* std::unique_lock<std::mutex> guard(...CommsLock) blocks while another
\* caller owns the mutex.
LockFree(c) == commsLock = NoCaller

\* flushIO: take the lock, tcflush(fd, TCIOFLUSH).
FlushIO_Lock(c) ==
    /\ pc[c] = "flushIO_lock"
    /\ LockFree(c)
    /\ commsLock' = c
    /\ rx' = <<>>
    /\ Log(c, <<Tcflush("TCIOFLUSH")>>)
    /\ pc' = [pc EXCEPT ![c] = "flushIO_read"]
    /\ UNCHANGED <<cfgVars, waitingForResponse, dev, lastOp, op, fn, cmd, data,
                   value, dvalue, ret, last, probes, hsVars, capVars, timeoutVars>>

\* A flushIO that returns without releasing the mutex.
FlushIO_ReadKeepsLock(c) ==
    /\ pc[c] = "flushIO_read"
    /\ commsLock = c
    /\ \E o \in {tty_read_section_expanded(rx, "#"), tty_read_failure(rx)} :
          \/ /\ rx' = o.rest
             /\ Log(c, <<Ev("discard", "", o.res, o.bytes)>>)
             /\ lastOp' = [caller |-> c, op |-> "discard"]
             /\ IF o.res > 0
                THEN pc' = [pc EXCEPT ![c] = "flushIO_read"] /\ commsLock' = c
                ELSE pc' = [pc EXCEPT ![c] = "lock"] /\ commsLock' = c
             /\ UNCHANGED <<waitingForResponse, fn, cmd, data, value, dvalue, ret,
                            last>>
          \/ /\ ReadOverflows(o)
             /\ Overrun(c, o, "discard")
    /\ UNCHANGED <<cfgVars, dev, op, probes, hsVars, capVars, timeoutVars>>

\* flushIO: do { error_type = tty_read_section_expanded(fd, discard_data,
\* '#', 0, 1000, &nbytes_read); } while (error_type > 0); return 0; the lock
\* is released on return.
FlushIO_Read(c) ==
    /\ pc[c] = "flushIO_read"
    /\ commsLock = c
    /\ \E o \in {tty_read_section_expanded(rx, "#"), tty_read_failure(rx)} :
          \/ /\ rx' = o.rest
             /\ Log(c, <<Ev("discard", "", o.res, o.bytes)>>)
             /\ lastOp' = [caller |-> c, op |-> "discard"]
             /\ IF o.res > 0
                THEN pc' = [pc EXCEPT ![c] = "flushIO_read"] /\ commsLock' = c
                ELSE pc' = [pc EXCEPT ![c] = "lock"] /\ commsLock' = NoCaller
             /\ UNCHANGED <<waitingForResponse, fn, cmd, data, value, dvalue, ret,
                            last>>
          \/ /\ ReadOverflows(o)
             /\ Overrun(c, o, "discard")
    /\ UNCHANGED <<cfgVars, dev, op, probes, hsVars, capVars, timeoutVars>>

\* std::unique_lock<std::mutex> guard(...CommsLock) in the command function.
Lock(c) ==
    /\ pc[c] = "lock"
    /\ LockFree(c)
    /\ commsLock' = c
    /\ pc' = [pc EXCEPT ![c] = "write"]
    /\ UNCHANGED <<cfgVars, waitingForResponse, linkVars, op, fn, cmd, data, value,
                   dvalue, ret, io, last, probes, hsVars, capVars, timeoutVars>>

\* A blind send that ends a failed write with "return error_type;" as the
\* digit-expecting send does.
WriteErrorResultAsCode(f, error) ==
    IF f \in {"sendCommandBlind", "sendCommand"} THEN AsBool(error) ELSE error

\* What a function returns when tty_write_string failed: the blind send 0,
\* the others error_type (sendOSCommand / sendOCSCommand as a bool).
WriteErrorResult(f, error) ==
    IF f = "sendCommandBlind" THEN 0
    ELSE IF f = "sendCommand" THEN AsBool(error)
    ELSE error

\* The one function that calls clearBlock() when the write failed.
ClearsBlockOnWriteError(drv, f) == drv = "OnStep_Aux" /\ f = "sendCommandBlind"

\* tcflush(fd, TCIFLUSH); tty_write_string(fd, cmd, &nbytes_write) and the
\* return that follows a failed write or the blind send's write (the
\* lock_guard releases the mutex). The device answers a command it received
\* with one of deviceReplies; the link is first in first out, so a reply
\* still under way arrives before it.
Write(c) ==
    /\ pc[c] = "write"
    /\ commsLock = c
    /\ \E error \in {TTY_OK, TTY_WRITE_ERROR}, reply \in deviceReplies :
          LET f == Transaction(fn[c])
              q == IF FlushesBeforeWrite(f) THEN <<>> ELSE rx
              pre == IF FlushesBeforeWrite(f) THEN <<Tcflush("TCIFLUSH")>> ELSE <<>>
              evs == pre \o <<Ev("write", cmd[c], error, <<>>)>>
          IN  /\ lastOp' = [caller |-> c, op |-> "write"]
              /\ probes' = IF op[c] = "Handshake" THEN Append(probes, cmd[c]) ELSE probes
              /\ IF WriteFailed(error)
                 THEN /\ rx' = q
                      /\ dev' = dev
                      /\ waitingForResponse' =
                            IF ClearsBlockOnWriteError(driver, f) THEN FALSE
                            ELSE waitingForResponse
                      /\ commsLock' = NoCaller
                      /\ Return(c, AfterReturn(c), f, WriteErrorResult(f, error),
                                data[c], value[c], dvalue[c], error, 0, evs)
                 ELSE /\ rx' = q \o dev
                      /\ dev' = reply
                      /\ UNCHANGED waitingForResponse
                      /\ IF f = "sendCommandBlind"
                         THEN /\ commsLock' = NoCaller
                              /\ Return(c, AfterReturn(c), f, 1, data[c], value[c],
                                        dvalue[c], error, 0, evs)
                         ELSE /\ pc' = [pc EXCEPT ![c] = "read"]
                              /\ Log(c, evs)
                              /\ UNCHANGED <<commsLock, fn, cmd, data, value,
                                             dvalue, ret, last>>
    /\ UNCHANGED <<cfgVars, op, hsVars, capVars, timeoutVars>>

\* The read function f of driver drv calls on the input queue q, when the
\* transport does not fail.
TimelyRead(drv, f, q) ==
    IF ReadsOneByte(drv, f) THEN tty_read_expanded(q, 1)
    ELSE tty_read_section_expanded(q, "#")

\* The read of the response, tcflush(fd, TCIFLUSH) and the rest of the
\* function up to its return.
Read(c) ==
    /\ pc[c] = "read"
    /\ commsLock = c
    /\ LET f == Transaction(fn[c])
           timely == TimelyRead(driver, f, rx)
       IN  \E o \in {timely, tty_read_failure(rx)} :
              LET a == AfterRead(f, data[c], value[c], dvalue[c], o)
              IN  \/ /\ rx' = <<>>
                     /\ lastOp' = [caller |-> c, op |-> "read"]
                     /\ waitingForResponse' =
                           IF driver = "OnStep_Aux" /\ a.clears THEN FALSE
                           ELSE waitingForResponse
                     /\ commsLock' = NoCaller
                     /\ Return(c, AfterReturn(c), f, a.ret, a.data, a.value,
                               a.dvalue, o.res, Len(o.bytes),
                               <<Ev("read", "", o.res, o.bytes)>>
                                  \o TcflushAll(a.flushes))
                  \/ /\ ReadOverflows(o)
                     /\ Overrun(c, o, "read")
    /\ UNCHANGED <<cfgVars, dev, op, probes, hsVars, capVars, timeoutVars>>

\* getCommandIntFromCharResponse after its transaction returned errorOrFail.
IntFromChar(c) ==
    /\ pc[c] = "intFromChar"
    /\ LET converted == stoi(CStr(data[c]))
           v == IF ret[c] < 1 THEN value[c]
                ELSE IF converted.thrown = "none" THEN converted.value
                ELSE conversion_error
       IN  /\ waitingForResponse' = IF ret[c] < 1 THEN FALSE ELSE waitingForResponse
           /\ Return(c, IF op[c] = "Handshake" THEN "Handshake"
                        ELSE IF op[c] = "update" THEN "apply" ELSE "idle",
                     fn[c], ret[c], data[c], v, dvalue[c], last.error_type,
                     last.nbytes_read, <<>>)
    /\ UNCHANGED <<cfgVars, commsLock, linkVars, op, probes, hsVars, capVars,
                   timeoutVars>>

\* A reply the device has sent reaches the port's input queue.
Deliver ==
    /\ dev # <<>>
    /\ rx' = rx \o dev
    /\ dev' = <<>>
    /\ UNCHANGED <<cfgVars, waitingForResponse, commsLock, lastOp, callVars,
                   probes, hsVars, capVars, timeoutVars>>

\* ------------------------------------------------------------------------
\* Handshake and capability discovery
\* ------------------------------------------------------------------------
\* How often the client connects.
MaxConnects == 1

\* The file descriptors a connection may hand over.
PortFDs == {-1, 3}

\* The product string each driver expects.
Product(drv) ==
    IF drv = "OCS" THEN <<"O", "C", "S">>
    ELSE <<"O", "n", "-", "S", "t", "e", "p">>

\* The identification command of each driver.
HandshakeCommand(drv) == IF drv = "OCS" THEN "OCS_handshake" ELSE "OS_handshake"

\* A switch that gives every measurement the temperature command.
WeatherCommandSame(m) == "OS_get_temperature"

\* The weather command of GetCapabilites' switch (measurement).
WeatherCommand(m) ==
    CASE m = 0 -> "OS_get_temperature"
      [] m = 1 -> "OS_get_pressure"
      [] m = 2 -> "OS_get_humidity"
      [] m = 3 -> "OS_get_dew_point"

\* Handshake leaves with handshake_status; the callback it ran in ends.
HandshakeReturns(c, status) ==
    /\ hsPc' = "returned"
    /\ handshake_status' = status
    /\ Frame_(c, "idle", "none", "none", ZeroBuf, 0, <<>>, 0)
    /\ io' = [io EXCEPT ![c] = <<>>]
    /\ UNCHANGED last

\* An exception leaves Handshake, or the process dies in it.
HandshakeAborts(c, status) ==
    /\ hsPc' = "threw"
    /\ handshake_status' = status
    /\ Frame_(c, "terminated", "none", "none", ZeroBuf, 0, <<>>, 0)
    /\ io' = [io EXCEPT ![c] = <<>>]
    /\ UNCHANGED last

\* The connection plugin calls Handshake. OnStep_Aux gives up when
\* PortFD < 0; OCS goes on when PortFD > 0, and then first sets its timeout
\* pair from the kind of the active connection.
Handshake_Begin(c) ==
    /\ pc[c] = "idle"
    /\ hsPc \in {"none", "returned"}
    /\ ~connected
    /\ connects < MaxConnects
    /\ connects' = connects + 1
    /\ UNCHANGED connected
    /\ probes' = <<>>
    /\ measurement' = 0
    /\ \E fd \in PortFDs :
          IF (driver = "OnStep_Aux" /\ fd < 0) \/ (driver = "OCS" /\ ~(fd > 0))
          THEN /\ HandshakeReturns(c, 0)
               /\ UNCHANGED <<op, timeoutVars>>
          ELSE /\ op' = [op EXCEPT ![c] = "Handshake"]
               /\ hsPc' = "ident"
               /\ handshake_status' = 0
               /\ Enter(c, "getCommandSingleCharErrorOrLongResponse",
                        HandshakeCommand(driver), ZeroBuf, 0, <<>>)
               /\ IF driver = "OCS"
                  THEN IF connection = "CONNECTION_TCP"
                       THEN OSTimeoutMicroSeconds' = 0 /\ OSTimeoutSeconds' = 2
                       ELSE OSTimeoutMicroSeconds' = 200000 /\ OSTimeoutSeconds' = 0
                  ELSE UNCHANGED timeoutVars
    /\ UNCHANGED <<cfgVars, waitingForResponse, commsLock, linkVars, capVars>>

\* Handshake after the identification transaction: handshake_status is its
\* int result as a bool; strcmp(response, product) == 0 sets it true and
\* starts the discovery, anything else returns it as it is.
Handshake_Identified(c) ==
    /\ pc[c] = "Handshake"
    /\ hsPc = "ident"
    /\ IF CStr(data[c]) = Product(driver)
       THEN /\ handshake_status' = 1
            /\ hsPc' = IF driver = "OCS" THEN "dome" ELSE "firmware"
            /\ Enter(c, "getCommandSingleCharErrorOrLongResponse",
                     IF driver = "OCS" THEN "OCS_get_dome_status"
                     ELSE "OS_get_firmware", ZeroBuf, 0, <<>>)
       ELSE HandshakeReturns(c, AsBool(ret[c]))
    /\ UNCHANGED <<cfgVars, waitingForResponse, commsLock, linkVars, op,
                   probes, measurement, connects, connected, capVars, timeoutVars>>

\* static constexpr const float minimum_OS_fw = 10.25, in hundredths.
minimum_OS_fw == 1025

\* The number std::stof reads in s, in hundredths: sign, digits and the
\* first two digits after the point (the replies hold no exponent).
Hundredths(s) ==
    LET i == 1 + SpaceRun(s, 1)
        j == i + SignLen(s, i)
        n == DigitRun(s, j, 10)
        k == IF At(s, j + n) = "." THEN j + n + 1 ELSE Len(s) + 1
        frac(m) == IF DigitRun(s, k, 10) > m - k THEN DigitVal(s[m]) ELSE 0
    IN  SignOf(s, i) * (DigitsValue(s, j, n, 10) * 100 + frac(k) * 10
                        + frac(k + 1))

\* std::stof(response) < minimum_OS_fw: false for nan, for inf by its sign.
VersionBelowMinimum(s) ==
    LET i == 1 + SpaceRun(s, 1)
        j == i + SignLen(s, i)
    IN  IF At(s, j) \in {"n", "N"} THEN FALSE
        ELSE IF At(s, j) \in {"i", "I"} THEN SignOf(s, i) < 0
        ELSE Hundredths(s) < minimum_OS_fw

\* The firmware probe left a number lower than the minimum in s.
OldFirmware(s) == stof(s).thrown = "none" /\ VersionBelowMinimum(s)

\* A version test that gives up when the version is too old.
FirmwareCheckStrict(s) ==
    IF stof(s).thrown # "none" \/ VersionBelowMinimum(s) THEN "throws"
    ELSE "passes"

\* if (std::stof(response) < minimum_OS_fw) LOGF_WARN(...): the conversion
\* throws, or the test warns, or it passes.
FirmwareCheck(s) ==
    IF stof(s).thrown # "none" THEN "throws"
    ELSE IF VersionBelowMinimum(s) THEN "warns"
    ELSE "passes"

\* GetCapabilites after the firmware probe: std::stof(response) is
\* evaluated whatever the probe returned.
GetCapabilites_Firmware(c) ==
    /\ pc[c] = "Handshake"
    /\ hsPc = "firmware"
    /\ IF FirmwareCheck(CStr(data[c])) = "throws"
       THEN HandshakeAborts(c, handshake_status)
       ELSE /\ hsPc' = "focuser"
            /\ Enter(c, "getCommandIntResponse", "OS_get_defined_focusers",
                     data[c], 0, <<>>)
            /\ UNCHANGED handshake_status
    /\ UNCHANGED <<cfgVars, waitingForResponse, commsLock, linkVars, op,
                   probes, measurement, connects, connected, capVars, timeoutVars>>

\* GetCapabilites after the focuser probe.
GetCapabilites_Focuser(c) ==
    /\ pc[c] = "Handshake"
    /\ hsPc = "focuser"
    /\ hasFocuser' = IF ret[c] > 0 /\ value[c] > 0 THEN TRUE ELSE hasFocuser
    /\ hsPc' = "rotator"
    /\ Enter(c, "getCommandIntResponse", "OS_get_defined_rotator", data[c],
             value[c], <<>>)
    /\ UNCHANGED <<cfgVars, waitingForResponse, commsLock, linkVars, op,
                   probes, measurement, connects, connected, handshake_status, hasRotator, hasWeather,
                   hasFeatures, weather_enabled, weather_tab_enabled,
                   domeCapability, ROOF_TIME_PRE_MOTION, ROOF_TIME_POST_MOTION,
                   timeoutVars>>

\* GetCapabilites after the rotator probe; the weather loop starts.
GetCapabilites_Rotator(c) ==
    /\ pc[c] = "Handshake"
    /\ hsPc = "rotator"
    /\ hasRotator' = IF ret[c] > 0 /\ value[c] > 0 THEN TRUE ELSE hasRotator
    /\ hsPc' = "weather"
    /\ measurement' = 0
    /\ Enter(c, "getCommandSingleCharErrorOrLongResponse", WeatherCommand(0),
             data[c], value[c], <<>>)
    /\ UNCHANGED <<cfgVars, waitingForResponse, commsLock, linkVars, op,
                   probes, connects, connected, handshake_status, hasFocuser, hasWeather, hasFeatures,
                   weather_enabled, weather_tab_enabled, domeCapability,
                   ROOF_TIME_PRE_MOTION, ROOF_TIME_POST_MOTION, timeoutVars>>

\* weatherDisabled of GetCapabilites: the sum its loop forms, which starts
\* at wmeasure = 1.
WeatherSum(enabled) == enabled[1] + enabled[2] + enabled[3]

\* A weather probe that takes whatever payload it read for a measurement.
WeatherFoundAnyPayload(r, response) == r > 1

\* if (error_or_fail > 1 && strcmp(response, "N/A") != 0 && strcmp(response,
\* "nan") != 0 && strcmp(response, "0") != 0)
WeatherFound(r, response) ==
    /\ r > 1
    /\ response # <<"N", "/", "A">>
    /\ response # <<"n", "a", "n">>
    /\ response # <<"0">>

\* The body of the weather loop after the probe of one measurement, and
\* after the last one the sum and the features probe.
GetCapabilites_Weather(c) ==
    /\ pc[c] = "Handshake"
    /\ hsPc = "weather"
    /\ LET found == WeatherFound(ret[c], CStr(data[c]))
           enabled == [weather_enabled EXCEPT ![measurement] = IF found THEN 1 ELSE 0]
       IN  /\ weather_enabled' = enabled
           /\ hasWeather' = IF found THEN TRUE ELSE hasWeather
           /\ measurement' = measurement + 1
           /\ IF measurement + 1 < WEATHER_MEASUREMENTS_COUNT
              THEN /\ Enter(c, "getCommandSingleCharErrorOrLongResponse",
                            WeatherCommand(measurement + 1), data[c], value[c], <<>>)
                   /\ UNCHANGED <<hsPc, weather_tab_enabled>>
              ELSE /\ weather_tab_enabled' =
                         IF WeatherSum(enabled) > 0 THEN TRUE ELSE weather_tab_enabled
                   /\ hsPc' = "features"
                   /\ Enter(c, "getCommandSingleCharErrorOrLongResponse",
                            "OS_get_defined_features", data[c], value[c], <<>>)
    /\ UNCHANGED <<cfgVars, waitingForResponse, commsLock, linkVars, op,
                   probes, connects, connected, handshake_status, hasFocuser, hasRotator, hasFeatures,
                   domeCapability, ROOF_TIME_PRE_MOTION, ROOF_TIME_POST_MOTION,
                   timeoutVars>>

\* GetCapabilites after the features probe: std::stoi(response) is
\* evaluated when the probe returned more than 1; SlowTimerHit() is empty,
\* GetCapabilites returns and Handshake returns handshake_status.
GetCapabilites_Features(c) ==
    /\ pc[c] = "Handshake"
    /\ hsPc = "features"
    /\ IF ret[c] > 1 /\ stoi(CStr(data[c])).thrown # "none"
       THEN /\ HandshakeAborts(c, handshake_status)
            /\ UNCHANGED hasFeatures
       ELSE /\ hasFeatures' = IF ret[c] > 1 /\ stoi(CStr(data[c])).value > 0
                              THEN TRUE ELSE hasFeatures
            /\ HandshakeReturns(c, handshake_status)
    /\ UNCHANGED <<cfgVars, waitingForResponse, commsLock, linkVars, op,
                   probes, measurement, connects, connected, hasFocuser, hasRotator, hasWeather,
                   weather_enabled, weather_tab_enabled, domeCapability,
                   ROOF_TIME_PRE_MOTION, ROOF_TIME_POST_MOTION, timeoutVars>>

\* OCS::Handshake after the dome probe.
OCSHandshake_Dome(c) ==
    /\ pc[c] = "Handshake"
    /\ hsPc = "dome"
    /\ domeCapability' = IF ret[c] > 0 THEN TRUE ELSE domeCapability
    /\ hsPc' = "roof"
    /\ Enter(c, "getCommandSingleCharErrorOrLongResponse", "OCS_get_timeouts",
             ZeroBuf, 0, <<>>)
    /\ UNCHANGED <<cfgVars, waitingForResponse, commsLock, linkVars, op,
                   probes, measurement, connects, connected, handshake_status, hasFocuser, hasRotator,
                   hasWeather, hasFeatures, weather_enabled, weather_tab_enabled,
                   ROOF_TIME_PRE_MOTION, ROOF_TIME_POST_MOTION, timeoutVars>>

\* atoi: strtol in base 10, 0 when there is no digit.
atoi(s) == IF stoi(s).thrown = "none" THEN stoi(s).value ELSE 0

\* strtok(s, ","): the first and the second token of s, <<>> standing for
\* the null pointer strtok returns when there is no token.
RECURSIVE SkipCommas(_, _)
SkipCommas(s, i) ==
    IF i <= Len(s) /\ s[i] = "," THEN SkipCommas(s, i + 1) ELSE i

Token(s, i) == SubSeq(s, SkipCommas(s, i), Scan(s, SkipCommas(s, i), ",") - 1)

SecondToken(s) == Token(s, Scan(s, SkipCommas(s, 1), ",") + 1)

\* OCS::Handshake after the roof delays probe. atoi of a null pointer is
\* undefined: the process dies or goes on with some number, here 0.
OCSHandshake_Roof(c) ==
    /\ pc[c] = "Handshake"
    /\ hsPc = "roof"
    /\ LET s == CStr(data[c])
       IN  IF ret[c] > 1
           THEN IF Token(s, 1) = <<>> \/ SecondToken(s) = <<>>
                THEN \/ /\ HandshakeAborts(c, handshake_status)
                        /\ UNCHANGED <<ROOF_TIME_PRE_MOTION, ROOF_TIME_POST_MOTION>>
                     \/ /\ ROOF_TIME_PRE_MOTION' = atoi(Token(s, 1))
                        /\ ROOF_TIME_POST_MOTION' = atoi(SecondToken(s))
                        /\ HandshakeReturns(c, handshake_status)
                ELSE /\ ROOF_TIME_PRE_MOTION' = atoi(Token(s, 1))
                     /\ ROOF_TIME_POST_MOTION' = atoi(SecondToken(s))
                     /\ HandshakeReturns(c, handshake_status)
           ELSE /\ HandshakeReturns(c, handshake_status)
                /\ UNCHANGED <<ROOF_TIME_PRE_MOTION, ROOF_TIME_POST_MOTION>>
    /\ UNCHANGED <<cfgVars, waitingForResponse, commsLock, linkVars, op,
                   probes, measurement, connects, connected, hasFocuser, hasRotator, hasWeather,
                   hasFeatures, weather_enabled, weather_tab_enabled,
                   domeCapability, timeoutVars>>

\* ------------------------------------------------------------------------
\* The timeout pair of a kind of connection: 2 s for the network; for
\* anything else 0.1 s in OnStep_Aux and 0.2 s in OCS.
Profile(drv, conn) ==
    IF conn = "CONNECTION_TCP" THEN <<2, 0>>
    ELSE IF drv = "OCS" THEN <<0, 200000>>
    ELSE <<0, 100000>>

\* Connect() returned true: the framework marks the device connected and
\* calls updateProperties(), which in OnStep_Aux sets the timeout pair.
UpdateProperties(c) ==
    /\ pc[c] = "idle"
    /\ hsPc = "returned"
    /\ handshake_status = 1
    /\ ~connected
    /\ connected' = TRUE
    /\ IF driver = "OnStep_Aux"
       THEN /\ OSTimeoutSeconds' = Profile(driver, connection)[1]
            /\ OSTimeoutMicroSeconds' = Profile(driver, connection)[2]
       ELSE UNCHANGED timeoutVars
    /\ UNCHANGED <<cfgVars, waitingForResponse, commsLock, linkVars, callVars,
                   probes, hsPc, measurement, handshake_status, connects, capVars>>

\* A Disconnect() that puts the capability flags back to false.
DisconnectResetsFlags(c) ==
    /\ pc[c] = "idle"
    /\ connected
    /\ connected' = FALSE
    /\ hsPc' = "none"
    /\ hasFocuser' = FALSE
    /\ hasRotator' = FALSE
    /\ hasWeather' = FALSE
    /\ hasFeatures' = FALSE
    /\ weather_enabled' = [m \in DOMAIN weather_enabled |-> 0]
    /\ UNCHANGED <<cfgVars, waitingForResponse, commsLock, linkVars, callVars,
                   probes, measurement, handshake_status, connects,
                   weather_tab_enabled, domeCapability, ROOF_TIME_PRE_MOTION,
                   ROOF_TIME_POST_MOTION, timeoutVars>>

\* Disconnect(): the base class's Disconnect() and nothing else.
Disconnect(c) ==
    /\ pc[c] = "idle"
    /\ connected
    /\ connected' = FALSE
    /\ hsPc' = "none"
    /\ UNCHANGED <<cfgVars, waitingForResponse, commsLock, linkVars, callVars,
                   probes, measurement, handshake_status, connects, capVars,
                   timeoutVars>>

\* Specifications
\* ------------------------------------------------------------------------
Callers == 1..NumCallers

\* Sequential use: one callback at a time calls into the driver; the
\* history of each call is kept.
Init ==
    /\ InitDriver
    /\ callers = {1}
    /\ connection = "CONNECTION_SERIAL"
    /\ deviceReplies = AllReplies
    /\ recording = TRUE
    /\ callerBuffers = {ZeroBuf, StaleBuf}

Next ==
    \/ \E c \in Callers : c \in callers /\ Call(c)
    \/ \E c \in Callers : c \in callers /\ BlockUntilClear_Wait(c)
    \/ \E c \in Callers : c \in callers /\ BlockUntilClear_Grab(c)
    \/ \E c \in Callers : c \in callers /\ FlushIO_Tcflush(c)
    \/ \E c \in Callers : c \in callers /\ FlushIO_Lock(c)
    \/ \E c \in Callers : c \in callers /\ FlushIO_Read(c)
    \/ \E c \in Callers : c \in callers /\ Lock(c)
    \/ \E c \in Callers : c \in callers /\ Write(c)
    \/ \E c \in Callers : c \in callers /\ Read(c)
    \/ \E c \in Callers : c \in callers /\ IntFromChar(c)
    \/ Deliver

Spec == Init /\ [][Next]_vars

\* The connection: the framework's Connect() calls Handshake, again after a
\* Disconnect(), and nothing else calls into the driver meanwhile. The
\* device answers with nothing, a number, the product string it is asked
\* for, or a pair of numbers.
HandshakeReplies(drv) ==
    IF drv = "OCS"
    THEN {<<>>, <<"O", "C", "S", "#">>, <<"2", ",", "3", "#">>}
    ELSE {<<>>, <<"O", "n", "-", "S", "t", "e", "p", "#">>, <<"1", "2", "#">>,
          <<"n", "a", "n", "#">>}

InitHandshake ==
    /\ InitDriver
    /\ callers = {1}
    /\ connection \in Connections
    /\ deviceReplies = HandshakeReplies(driver)
    /\ recording = FALSE
    /\ callerBuffers = {ZeroBuf}

NextHandshake ==
    \/ \E c \in Callers : c \in callers /\ Handshake_Begin(c)
    \/ \E c \in Callers : c \in callers /\ Handshake_Identified(c)
    \/ \E c \in Callers : c \in callers /\ GetCapabilites_Firmware(c)
    \/ \E c \in Callers : c \in callers /\ GetCapabilites_Focuser(c)
    \/ \E c \in Callers : c \in callers /\ GetCapabilites_Rotator(c)
    \/ \E c \in Callers : c \in callers /\ GetCapabilites_Weather(c)
    \/ \E c \in Callers : c \in callers /\ GetCapabilites_Features(c)
    \/ \E c \in Callers : c \in callers /\ OCSHandshake_Dome(c)
    \/ \E c \in Callers : c \in callers /\ OCSHandshake_Roof(c)
    \/ \E c \in Callers : c \in callers /\ UpdateProperties(c)
    \/ \E c \in Callers : c \in callers /\ Disconnect(c)
    \/ \E c \in Callers : c \in callers /\ BlockUntilClear_Wait(c)
    \/ \E c \in Callers : c \in callers /\ BlockUntilClear_Grab(c)
    \/ \E c \in Callers : c \in callers /\ FlushIO_Tcflush(c)
    \/ \E c \in Callers : c \in callers /\ FlushIO_Lock(c)
    \/ \E c \in Callers : c \in callers /\ FlushIO_Read(c)
    \/ \E c \in Callers : c \in callers /\ Lock(c)
    \/ \E c \in Callers : c \in callers /\ Write(c)
    \/ \E c \in Callers : c \in callers /\ Read(c)
    \/ Deliver

SpecHandshake == InitHandshake /\ [][NextHandshake]_vars

\* Callbacks running on several threads, each calling one command function
\* at a time; no history is kept.
InitConcurrent ==
    /\ InitDriver
    /\ callers = Callers
    /\ connection = "CONNECTION_SERIAL"
    /\ deviceReplies = {<<"0">>, <<"5", "#">>}
    /\ recording = FALSE
    /\ callerBuffers = {ZeroBuf}

NextConcurrent ==
    \/ \E c \in Callers : c \in callers /\ Call(c)
    \/ \E c \in Callers : c \in callers /\ BlockUntilClear_Wait(c)
    \/ \E c \in Callers : c \in callers /\ BlockUntilClear_Grab(c)
    \/ \E c \in Callers : c \in callers /\ FlushIO_Tcflush(c)
    \/ \E c \in Callers : c \in callers /\ FlushIO_Lock(c)
    \/ \E c \in Callers : c \in callers /\ FlushIO_Read(c)
    \/ \E c \in Callers : c \in callers /\ Lock(c)
    \/ \E c \in Callers : c \in callers /\ Write(c)
    \/ \E c \in Callers : c \in callers /\ Read(c)
    \/ \E c \in Callers : c \in callers /\ IntFromChar(c)
    \/ Deliver

SpecConcurrent == InitConcurrent /\ [][NextConcurrent]_vars

\* Sequential use in which whatever can run does run, with a device that
\* answers with nothing or a terminated number.
InitFair ==
    /\ InitDriver
    /\ callers = {1}
    /\ connection = "CONNECTION_SERIAL"
    /\ deviceReplies = {<<>>, <<"5", "#">>}
    /\ recording = FALSE
    /\ callerBuffers = {ZeroBuf}

FairSpec == InitFair /\ [][Next]_vars /\ WF_vars(Next)

\* A session: the connection with its discovery, then the periodic update
\* functions while connected, then Disconnect(). The device answers with
\* the product string or with a number.
SessionReplies(drv) ==
    IF drv = "OCS"
    THEN {<<"O", "C", "S", "#">>, <<"2", ",", "3", "#">>}
    ELSE {<<"O", "n", "-", "S", "t", "e", "p", "#">>, <<"2", "#">>}

InitSession ==
    /\ InitDriver
    /\ callers = {1}
    /\ connection = "CONNECTION_SERIAL"
    /\ deviceReplies = SessionReplies(driver)
    /\ recording = FALSE
    /\ callerBuffers = {ZeroBuf}

NextSession ==
    \/ NextHandshake
    \/ \E c \in Callers : c \in callers /\ connected /\ Update(c)
    \/ \E c \in Callers : c \in callers /\ Apply(c)
    \/ \E c \in Callers : c \in callers /\ IntFromChar(c)

SpecSession == InitSession /\ [][NextSession]_vars

\* ------------------------------------------------------------------------
\* Properties
\* ------------------------------------------------------------------------
\* The functions of OnStep_Aux that call blockUntilClear() and clearBlock().
GuardedFunctions ==
    {"sendCommand", "getCommandSingleCharResponse", "getCommandDoubleResponse",
     "getCommandIntResponse", "getCommandSingleCharErrorOrLongResponse"}

\* The events of kind k in a history.
EventsOf(log, k) == {i \in 1..Len(log) : log[i].op = k}

\* The call that returned last read bytes b and the read returned res.
LastRead(b, res) ==
    \E i \in EventsOf(last.io, "read") :
        last.io[i].bytes = b /\ last.io[i].res = res

\* The call that returned last failed at its write.
LastWriteFailed ==
    \E i \in EventsOf(last.io, "write") : last.io[i].res # TTY_OK

\* Caller c is past blockUntilClear() and before its clearBlock().
InTransaction(c) ==
    /\ CallsBlockUntilClear(driver, fn[c])
    /\ pc[c] \in {"flushIO", "flushIO_lock", "flushIO_read", "lock", "write", "read"}

\* C1: immediately after a guarded transaction function of OnStep_Aux has
\* returned, on whatever exit path, waitingForResponse is false.
C1_GuardReleasedOnReturn ==
    (driver = "OnStep_Aux" /\ last.fn \in GuardedFunctions) => ~waitingForResponse

\* C2: between the write and the read of one caller's transaction no other
\* caller writes to or reads from the port: when a caller is about to read
\* its response, the last operation on the port is its own write.
C2_WriteReadNotInterleaved ==
    \A c \in callers :
        pc[c] = "read" => lastOp = [caller |-> c, op |-> "write"]

\* Two callers are in a send-and-receive transaction at once: one has
\* written and not read yet, the other waits for the mutex to write.
C2_Witness ==
    \E c1, c2 \in callers :
        /\ c1 # c2
        /\ pc[c1] = "read"
        /\ pc[c2] = "lock"
        /\ Transaction(fn[c2]) # "sendCommandBlind"

\* Every capability flag has its default false value.
FlagsDefault ==
    /\ ~hasFocuser /\ ~hasRotator /\ ~hasWeather /\ ~hasFeatures
    /\ ~weather_tab_enabled /\ ~domeCapability

\* C3: when the identification response is not the product string (also
\* when nothing arrived before the timeout), Handshake returns false at
\* once, with no discovery and every capability flag left at false.
C3_MismatchReturnsFalse ==
    [][\A c \in callers :
          (pc[c] = "Handshake" /\ hsPc = "ident" /\ CStr(data[c]) # Product(driver))
             => (hsPc' = "returned" /\ handshake_status' = 0 /\ FlagsDefault')]_vars

\* Handshake has read the product string it expects.
Identified ==
    \/ hsPc \in {"firmware", "focuser", "rotator", "weather", "features", "dome",
                 "roof", "threw"}
    \/ hsPc = "returned" /\ Len(probes) > 1

\* C4: when the identification is answered with the product string,
\* Handshake returns, returns true, and has by then issued the discovery
\* probes after the identification command.
C4_IdentifiedReturnsTrue ==
    Identified =>
        /\ hsPc # "threw"
        /\ hsPc = "returned" =>
              /\ handshake_status = 1
              /\ probes[1] = HandshakeCommand(driver)
              /\ Len(probes) > 1

\* C5: in sequential use every call of a command function returns.
C5_EveryCallReturns ==
    \A c \in Callers : (pc[c] # "idle") ~> (pc[c] = "idle")

\* C6: at most one caller of OnStep_Aux at a time is between the return of
\* blockUntilClear and its own clearBlock.
C6_OneTransactionInFlight ==
    driver = "OnStep_Aux" => Cardinality({c \in callers : InTransaction(c)}) <= 1

\* C7: a call whose write failed makes no read of a response.
C7_NoReadAfterFailedWrite ==
    /\ LastWriteFailed => EventsOf(last.io, "read") = {}
    /\ \A c \in callers :
          (\E i \in EventsOf(io[c], "write") : io[c][i].res # TTY_OK)
             => EventsOf(io[c], "read") = {}

\* A call of getCommandDoubleResponse returned after its write failed.
C7_Witness ==
    /\ last.fn = "getCommandDoubleResponse"
    /\ LastWriteFailed
    /\ last.ret = TTY_WRITE_ERROR

\* C8: the digit-expecting send returns true when the byte '0' was read and
\* false when the byte '1' was read.
C8_ZeroIsSuccess ==
    last.fn = "sendCommand" =>
        /\ LastRead(<<"0">>, TTY_OK) => last.ret = 1
        /\ LastRead(<<"1">>, TTY_OK) => last.ret = 0

\* The digit-expecting send of either kind of answer has returned.
C8_Witness ==
    /\ last.fn = "sendCommand"
    /\ last.error_type = TTY_OK
    /\ LastRead(<<"0">>, TTY_OK)
    /\ last.ret = 1

\* The read of getCommandIntResponse when the device answered "ERR#": the
\* section up to '#' in OCS, the first byte in OnStep_Aux.
ErrRead(drv) ==
    IF ReadsOneByte(drv, "getCommandIntResponse") THEN <<"E">>
    ELSE <<"E", "R", "R", "#">>

\* C9: an integer query that read the answer "ERR#" returns RES_ERR_FORMAT,
\* no byte count.
C9_NonNumericIsFormatError ==
    (last.fn = "getCommandIntResponse" /\ LastRead(ErrRead(driver), TTY_OK))
        => (last.ret = RES_ERR_FORMAT /\ ~(last.ret > 0))

\* An integer query read "ERR#" and returned.
C9_Witness ==
    /\ last.fn = "getCommandIntResponse"
    /\ LastRead(ErrRead(driver), TTY_OK)
    /\ last.ret = RES_ERR_FORMAT
    /\ pc[last.caller] = "idle"

\* C10: an Integer or Float query whose read timed out with 0 bytes returns
\* the timeout code, not RES_ERR_FORMAT, and converts nothing.
C10_TimeoutIsNotFormatError ==
    (/\ last.fn \in {"getCommandIntResponse", "getCommandDoubleResponse"}
     /\ LastRead(<<>>, TTY_TIME_OUT))
        => /\ last.ret = TTY_TIME_OUT
           /\ last.ret # RES_ERR_FORMAT
           /\ last.value = 0
           /\ last.dvalue = <<>>

\* An Integer query timed out with nothing read.
C10_Witness ==
    /\ last.fn = "getCommandIntResponse"
    /\ LastRead(<<>>, TTY_TIME_OUT)
    /\ last.nbytes_read = 0
    /\ last.ret = TTY_TIME_OUT

\* The functions that frame the response in the caller's buffer.
FramingFunctions == CommandFunctions \ {"sendCommandBlind", "sendCommand"}

\* C11: when the bytes read hold their first '#' at position k, the payload
\* handed to the caller is exactly the first k bytes, whatever the buffer
\* holds after the terminator.
C11_PayloadIsBytesBeforeTerminator ==
    \A i \in EventsOf(last.io, "read") :
        LET b == last.io[i].bytes
            k == Scan(b, 1, "#") - 1
        IN  (last.fn \in FramingFunctions /\ k < Len(b) /\ k < RB_MAX_LEN)
               => CStr(last.data) = SubSeq(b, 1, k)

\* A long-response call read "12#" into a buffer that holds stale bytes,
\* another '#' among them, after the terminator.
C11_Witness ==
    /\ last.fn = "getCommandSingleCharErrorOrLongResponse"
    /\ LastRead(<<"1", "2", "#">>, TTY_OK)
    /\ last.data[5] = "#"
    /\ CStr(last.data) = <<"1", "2">>

\* C12: a response of RB_MAX_LEN bytes or more without terminator is handed
\* to the caller as a payload of RB_MAX_LEN - 1 bytes, and the read stores
\* nothing at a buffer index above RB_MAX_LEN - 1.
C12_LongResponseTruncated ==
    \A i \in EventsOf(last.io, "read") :
        LET b == last.io[i].bytes
        IN  (/\ last.fn \in FramingFunctions
             /\ Len(b) >= RB_MAX_LEN
             /\ Scan(b, 1, "#") > Len(b))
               => /\ Len(CStr(last.data)) = RB_MAX_LEN - 1
                  /\ Len(b) - 1 <= RB_MAX_LEN - 1

\* The commands Handshake writes when it runs to its end, in order.
DiscoverySequence(drv) ==
    IF drv = "OCS"
    THEN <<"OCS_handshake", "OCS_get_dome_status", "OCS_get_timeouts">>
    ELSE <<"OS_handshake", "OS_get_firmware", "OS_get_defined_focusers",
           "OS_get_defined_rotator", "OS_get_temperature", "OS_get_pressure",
           "OS_get_humidity", "OS_get_dew_point", "OS_get_defined_features">>

\* C13: once the product string was read, discovery never aborts: whatever
\* the outcome of each probe, no exception leaves it, and when it is over
\* every probe has been issued.
C13_DiscoveryNeverAborts ==
    Identified =>
        /\ hsPc # "threw"
        /\ hsPc = "returned" => probes = DiscoverySequence(driver)

\* The payloads that stand for an absent weather sensor.
AbsentPayloads == {<<"N", "/", "A">>, <<"n", "a", "n">>, <<"0">>}

InDiscovery ==
    hsPc \in {"firmware", "focuser", "rotator", "weather", "features", "dome", "roof"}

\* C15: from the first capability probe on, the timeout pair is the profile
\* of the active connection.
C15_TimeoutsSetBeforeProbes ==
    InDiscovery =>
        <<OSTimeoutSeconds, OSTimeoutMicroSeconds>> = Profile(driver, connection)

\* C16: after a session of OnStep_Aux in which the discovery ran, once
\* Disconnect has returned every capability flag and every weather_enabled
\* entry is back at its disabled default.
C16_FlagsResetOnDisconnect ==
    (/\ driver = "OnStep_Aux"
     /\ probes = DiscoverySequence(driver)
     /\ ~connected
     /\ hsPc = "none")
        => /\ FlagsDefault
           /\ \A m \in DOMAIN weather_enabled : weather_enabled[m] = 0

\* C18: from the handshake that read the product string until the
\* disconnect, the timeout pair does not change.
C18_TimeoutsFixedInSession ==
    [][(Identified /\ Identified') => UNCHANGED timeoutVars]_vars

\* The write of the call that returned last.
LastWrite == CHOOSE i \in EventsOf(last.io, "write") : TRUE

\* C17: the blind send writes the command once and reads no response; it
\* returns true if and only if the write succeeded.
C17_BlindSendWritesOnly ==
    /\ last.fn = "sendCommandBlind" =>
          /\ Cardinality(EventsOf(last.io, "write")) = 1
          /\ EventsOf(last.io, "read") = {}
          /\ (last.ret = 1) <=> (last.io[LastWrite].res = TTY_OK)
          /\ last.ret \in {0, 1}
    /\ \A c \in callers :
          fn[c] = "sendCommandBlind" =>
              pc[c] # "read" /\ EventsOf(io[c], "read") = {}

\* A blind send returned false after its write failed.
C17_Witness ==
    /\ last.fn = "sendCommandBlind"
    /\ LastWriteFailed
    /\ last.ret = 0

\* C19: one call of a transaction function writes the command at most once,
\* whatever the outcome of the write and of the read.
C19_NoRetryInsideCall ==
    /\ Cardinality(EventsOf(last.io, "write")) <= 1
    /\ \A c \in callers : Cardinality(EventsOf(io[c], "write")) <= 1

\* An integer query returned the transport's code after its read timed out,
\* having written once.
C19_Witness ==
    /\ last.fn = "getCommandIntResponse"
    /\ last.ret = TTY_TIME_OUT
    /\ Cardinality(EventsOf(last.io, "write")) = 1
    /\ LastRead(<<>>, TTY_TIME_OUT)

\* C20: the digit-expecting send returns true only if the byte '0' was
\* read: it returns false when the write failed and when no byte was read.
C20_TrueOnlyIfZeroRead ==
    last.fn = "sendCommand" =>
        /\ last.ret = 1 => LastRead(<<"0">>, TTY_OK)
        /\ LastWriteFailed => last.ret = 0
        /\ last.nbytes_read < 1 => last.ret = 0

\* C21: an integer query whose read succeeds when "12#" is waiting reads up
\* to and including the terminator (three bytes) and stores the integer 12.
C21_IntQueryReadsToTerminator ==
    [][\A c \in callers :
          (/\ pc[c] = "read"
           /\ fn[c] = "getCommandIntResponse"
           /\ rx = <<"1", "2", "#">>
           /\ last'.fn = "getCommandIntResponse"
           /\ last'.error_type = TTY_OK)
              => (last'.value = 12 /\ last'.nbytes_read = 3)]_vars

\* The last discard read in the history log.
LastDiscard(log) ==
    log[CHOOSE i \in EventsOf(log, "discard") :
            \A j \in EventsOf(log, "discard") : j <= i]

\* C22: flushIO goes on to the command only after a discard read that timed
\* out or failed: a discard read that returned data is followed by another.
C22_DrainUntilTimeout ==
    [][\A c \in callers :
          (pc[c] = "flushIO_read" /\ pc'[c] = "lock")
              => LastDiscard(io'[c]).res # TTY_OK]_vars

\* The numeric queries.
NumericFunctions == {"getCommandIntResponse", "getCommandDoubleResponse"}

\* C23: when an integer or a float query returns RES_ERR_FORMAT, its history
\* holds a tcflush of both queues (TCIOFLUSH) after its read.
C23_FormatErrorFlushes ==
    (last.fn \in NumericFunctions /\ last.ret = RES_ERR_FORMAT)
        => \E i \in EventsOf(last.io, "read"), j \in EventsOf(last.io, "tcflush") :
              i < j /\ last.io[j].arg = "TCIOFLUSH"

\* A float query returned RES_ERR_FORMAT after it read "ERR#".
C23_Witness ==
    /\ last.fn = "getCommandDoubleResponse"
    /\ last.ret = RES_ERR_FORMAT
    /\ LastRead(<<"E", "R", "R", "#">>, TTY_OK)

\* C24: a numeric query that read "2,3#", a number followed by other
\* characters, returns RES_ERR_FORMAT.
C24_NumericParseIsStrict ==
    (last.fn \in NumericFunctions /\ LastRead(<<"2", ",", "3", "#">>, TTY_OK))
        => last.ret = RES_ERR_FORMAT

\* The functions that write a command and read its response.
SendAndReceive == CommandFunctions \ {"sendCommandBlind"}

\* What C25 says of the call that returned last, for the functions in F.
PositiveIsByteCount(F) ==
    last.fn \in F =>
        /\ last.ret > 0 =>
              /\ last.error_type = TTY_OK
              /\ EventsOf(last.io, "read") # {}
              /\ last.ret = last.nbytes_read
        /\ (last.error_type # TTY_OK \/ LastWriteFailed) => last.ret <= 0

\* C25: a send-and-receive function returns a value > 0 only when its read
\* completed successfully, and then the number of bytes read; after a
\* timeout or a transport error it returns a value <= 0.
C25_PositiveIsByteCount == PositiveIsByteCount(SendAndReceive)

\* C26: when an update function makes its property update with the result
\* of a transaction, the mutex is free and the busy flag that the
\* transaction set is false again.
C26_NothingHeldAcrossPropertyUpdate ==
    \A c \in callers :
        pc[c] = "apply" =>
            /\ commsLock = NoCaller
            /\ (driver = "OnStep_Aux" /\ fn[c] \in GuardedFunctions)
                  => ~waitingForResponse

\* s is an initial part of t.
IsPrefix(s, t) == Len(s) <= Len(t) /\ SubSeq(t, 1, Len(s)) = s

CapabilityFlags ==
    <<hasFocuser, hasRotator, hasWeather, hasFeatures, weather_enabled>>

C30_GuardClearedOnlyByHolder ==
    [][\A c, d \in callers :
          (/\ c # d
           /\ InTransaction(d)
           /\ ~InTransaction(c)
           /\ pc'[c] # pc[c]
           /\ waitingForResponse)
              => waitingForResponse']_vars

\* C31: while a caller holds the mutex between its write and its read, a
\* step of another caller leaves the port's input queue as it is: no other
\* caller reads, writes or discards.
C31_NoForeignOperationDuringTransaction ==
    [][\A c, d \in callers :
          (/\ c # d
           /\ commsLock = d
           /\ pc[d] = "read"
           /\ pc'[c] # pc[c])
              => rx' = rx]_vars

\* C32: a caller that waits on the busy flag, that is about to call
\* flushIO or that is about to take the mutex does not hold the mutex.
C32_GuardBeforeMutex ==
    \A c \in callers :
        pc[c] \in {"blockUntilClear", "flushIO", "flushIO_lock", "lock"}
            => commsLock # c

\* One caller waits on the busy flag while the other, which set it, holds
\* the mutex.
C32_Witness ==
    \E c, d \in callers :
        /\ pc[c] = "blockUntilClear"
        /\ waitingForResponse
        /\ commsLock = d
        /\ InTransaction(d)

\* C33: after a complete discovery on a freshly constructed OnStep_Aux the
\* weather tab is enabled exactly when some weather_enabled entry is 1, and
\* exactly when hasWeather is true.
C33_WeatherTabIffSensorFound ==
    (/\ driver = "OnStep_Aux"
     /\ connects = 1
     /\ hsPc = "returned"
     /\ probes = DiscoverySequence(driver))
        => /\ weather_tab_enabled
                <=> (\E m \in DOMAIN weather_enabled : weather_enabled[m] = 1)
           /\ weather_tab_enabled <=> hasWeather

\* OSUpdateRotator: if (error_or_fail == 1 && response[0] == '0'), the
\* test for "no rotator" on the result r and the buffer buf.
RotatorNotPresent(r, buf) == r = 1 /\ buf[1] = "0"

\* C34: when the read of getCommandSingleCharErrorOrLongResponse received
\* the single unterminated character '0', the function returns 1 with "0"
\* as payload, and OSUpdateRotator's test for "no rotator" is true.
C34_UnterminatedZeroIsOneByte ==
    (/\ last.fn = "getCommandSingleCharErrorOrLongResponse"
     /\ \E i \in EventsOf(last.io, "read") : last.io[i].bytes = <<"0">>)
        => /\ last.ret = 1
           /\ CStr(last.data) = <<"0">>
           /\ RotatorNotPresent(last.ret, last.data)

\* MoveAbsFocuser (target in range) and MoveRotator on the result r of
\* their getCommandSingleCharResponse: if (r > 1) return IPS_BUSY; else
\* return IPS_ALERT;
MoveState(r) == IF r > 1 THEN "IPS_BUSY" ELSE "IPS_ALERT"

\* C35: MoveAbsFocuser and MoveRotator return IPS_BUSY when their
\* getCommandSingleCharResponse received the one-character acknowledgement,
\* and IPS_ALERT only when the transaction failed.
C35_MoveIsBusyOnAcknowledgement ==
    (driver = "OnStep_Aux" /\ last.fn = "getCommandSingleCharResponse")
        => /\ (last.error_type = TTY_OK /\ last.nbytes_read = 1)
                => MoveState(last.ret) = "IPS_BUSY"
           /\ MoveState(last.ret) = "IPS_ALERT" => last.error_type # TTY_OK

\* C36: wherever a function that both drivers have is about to read its
\* response, the read of OnStep_Aux and the read of OCS take the same
\* bytes with the same result, and the two functions return the same code,
\* payload and value.
C36_EnginesEquivalent ==
    \A c \in callers :
        (pc[c] = "read" /\ fn[c] \in FunctionsOf("OCS")) =>
            LET f == Transaction(fn[c])
                aux == TimelyRead("OnStep_Aux", f, rx)
                ocs == TimelyRead("OCS", f, rx)
                a == AfterRead(f, data[c], value[c], dvalue[c], aux)
                o == AfterRead(f, data[c], value[c], dvalue[c], ocs)
            IN  /\ aux = ocs
                /\ a.ret = o.ret
                /\ CStr(a.data) = CStr(o.data)
                /\ a.value = o.value

\* C37: when the transaction of getCommandIntFromCharResponse read "ERR#",
\* a payload that is no integer, the call returns a failure code, no
\* positive byte count, and no exception leaves it.
C37_IntFromCharReportsFormatError ==
    /\ (last.fn = "getCommandIntFromCharResponse"
          /\ LastRead(<<"E", "R", "R", "#">>, TTY_OK))
          => last.ret <= 0
    /\ \A c \in callers :
          fn[c] = "getCommandIntFromCharResponse" => pc[c] # "terminated"

====
